---- MODULE Spec2Model ----
(***************************************************************************)
(* RFC 5531 record marking over a byte stream, as implemented by the       *)
(* sunrpc package: NewRecordMarker / ParseRecordMarker (the marker codec), *)
(* ReadRecordMarker / WriteRecordMarker (marker I/O), ReadRecord (the      *)
(* fragment reassembly loop) and WriteTCPReplyMessage (reply framing).     *)
(*                                                                         *)
(* A uint32 is kept as its two 16-bit halves [hi, lo] so that all 32 bits  *)
(* are represented exactly; bytes are naturals in 0..255; a stream is a    *)
(* sequence of bytes.                                                      *)
(***************************************************************************)
EXTENDS Integers, Sequences, FiniteSets, TLC

VARIABLES
    gen,        \* the fragments the reader's input stream is built from
    cut,        \* number of bytes missing from the end of that stream
    rpos,       \* io.Reader: number of bytes consumed so far
    rerr,       \* io.Reader: the error reported once rdata is exhausted
    pc,         \* "idle", or "ReadRecord" while the loop of ReadRecord runs
    buf,        \* ReadRecord: var buf bytes.Buffer
    ret,        \* the result of the last call that returned
    callStart,  \* rpos when the current / last ReadRecord call began
    ncalls,     \* number of ReadRecord calls made on the reader
    rm,         \* what the last ReadRecordMarker call returned, and rpos around it
    frags,      \* markers of the fragments copied into buf by the current / last call
    ioFail,     \* the stream operations that failed in the current / last call
    wdata,      \* io.Writer: every byte accepted so far
    wcap,       \* io.Writer: [limited, left, partial], the bytes it still accepts, and
                \* whether a Write that does not fit is taken in part or not at all
    wstart,     \* len(wdata) when the last WriteTCPReplyMessage call began
    wreply,     \* the reply argument of the last WriteTCPReplyMessage call
    sent,       \* payloads of the WriteTCPReplyMessage calls that returned nil
    fed,        \* TRUE once the writer's output has been handed to the reader
    codec       \* marker codec harness: argument / marker (and the marker of the
                \* same size with the other flag) / parsed marker

vars == << gen, cut, rpos, rerr, pc, buf, ret, callStart, ncalls, rm, frags, ioFail,
           wdata, wcap, wstart, wreply, sent, fed, codec >>

writerVars == << wdata, wcap, wstart, wreply, sent, fed >>

----------------------------------------------------------------------------
(* Bounds of the model *)

\* fragments per generated input stream
MaxFrags == 2
\* bytes cut off the end of a generated input stream
MaxCut == 2
\* WriteTCPReplyMessage calls per behaviour
MaxReplies == 1
\* largest finite capacity of the writer
MaxWCap == 5
\* ReadRecord calls per reader
MaxCalls == 3
\* distance from 0, 2^15, 2^16 of the 16-bit halves of the codec's arguments
MaxDelta == 1

----------------------------------------------------------------------------
(* Program constants *)

maxRecordSize == 32 * 1024

----------------------------------------------------------------------------
(* uint32 arithmetic on [hi, lo] halves *)

Half == 65536

U32(n) == [hi |-> (n \div Half) % Half, lo |-> n % Half]

\* defined for values below 2^31 only (every size ParseRecordMarker returns)
Int64(u) == u.hi * Half + u.lo

RECURSIVE AndNotBits(_, _, _)
AndNotBits(a, b, n) ==
    IF n = 0 THEN 0
    ELSE (IF a % 2 = 1 /\ b % 2 = 0 THEN 1 ELSE 0)
         + 2 * AndNotBits(a \div 2, b \div 2, n - 1)

RECURSIVE XorBits(_, _, _)
XorBits(a, b, n) ==
    IF n = 0 THEN 0
    ELSE (IF a % 2 /= b % 2 THEN 1 ELSE 0)
         + 2 * XorBits(a \div 2, b \div 2, n - 1)

\* a &^ b
AndNot32(a, b) == [hi |-> AndNotBits(a.hi, b.hi, 16), lo |-> AndNotBits(a.lo, b.lo, 16)]

\* a ^ b
Xor32(a, b) == [hi |-> XorBits(a.hi, b.hi, 16), lo |-> XorBits(a.lo, b.lo, 16)]

\* a >> 31
Shr31(a) == [hi |-> 0, lo |-> a.hi \div 32768]

\* 1 << 31, 0x80000000
Bit31 == [hi |-> 32768, lo |-> 0]

----------------------------------------------------------------------------
(* Marker codec *)

\* mutant: the last-fragment flag is never set
NewRecordMarkerNoFlag(size, last) == AndNot32(size, Bit31)

\* mutant: bit 31 of the size is not cleared before the flag is toggled in
NewRecordMarkerNoClear(size, last) == IF last THEN Xor32(size, Bit31) ELSE size

\* mutant: the flag is toggled whether or not last is set
NewRecordMarkerAlwaysFlag(size, last) == Xor32(AndNot32(size, Bit31), Bit31)

NewRecordMarker(size, last) ==
    LET marker == AndNot32(size, Bit31)
    IN  IF last THEN Xor32(marker, Bit31) ELSE marker

\* mutant: the flag bit is left in the size
ParseRecordMarkerNoMask(marker) ==
    [size |-> marker, last |-> (Shr31(marker) = U32(1))]

ParseRecordMarker(marker) ==
    [size |-> AndNot32(marker, Bit31), last |-> (Shr31(marker) = U32(1))]

\* mutants: little-endian byte order
PutUint32LE(m) == << m.lo % 256, m.lo \div 256, m.hi % 256, m.hi \div 256 >>

Uint32LE(b) == [hi |-> b[4] * 256 + b[3], lo |-> b[2] * 256 + b[1]]

\* binary.BigEndian.PutUint32 / Uint32
PutUint32(m) == << m.hi \div 256, m.hi % 256, m.lo \div 256, m.lo % 256 >>

Uint32(b) == [hi |-> b[1] * 256 + b[2], lo |-> b[3] * 256 + b[4]]

----------------------------------------------------------------------------
(* Errors.  kind "nil" is the nil error; n and size are the two numbers    *)
(* formatted into the short-read error of ReadRecord.                      *)

Err(kind) == [kind |-> kind, n |-> 0, size |-> 0]

NoErr == Err("nil")

\* errors.New("A TCP record must be at least one byte in size")
ErrZeroLength == Err("ZeroLength")

\* fmt.Errorf("Discarded record exceeding maximum size of %v bytes", maxRecordSize)
ErrTooLarge == [kind |-> "TooLarge", n |-> 0, size |-> maxRecordSize]

\* mutant: the two numbers are swapped
ErrShortReadSwapped(n, size) == [kind |-> "ShortRead", n |-> size, size |-> n]

\* fmt.Errorf("Unable to read entire record. Read %v, expected %v", n, size)
ErrShortRead(n, size) == [kind |-> "ShortRead", n |-> n, size |-> size]

Min(a, b) == IF a < b THEN a ELSE b

----------------------------------------------------------------------------
(* The read side of the stream: an io.Reader that delivers the bytes of    *)
(* data after pos and then reports eof ("EOF" for a clean end of stream,   *)
(* "EIO" for a transport error).                                           *)

\* io.ReadFull(r, bs) with len(bs) = n, as binary.Read calls it
ReadFull(data, pos, eof, n) ==
    LET avail == Len(data) - pos
    IN  IF avail >= n
        THEN [bytes |-> SubSeq(data, pos + 1, pos + n), pos |-> pos + n, err |-> "nil"]
        ELSE [bytes |-> <<>>, pos |-> Len(data),
              err |-> IF eof = "EOF" /\ avail > 0 THEN "ErrUnexpectedEOF" ELSE eof]

\* io.CopyN(dst, r, n): the bytes handed to dst, their number, and the error
CopyN(data, pos, eof, n) ==
    LET avail == Len(data) - pos
        written == Min(n, avail)
    IN  [bytes |-> SubSeq(data, pos + 1, pos + written), n |-> written,
         pos |-> pos + written, err |-> IF written = n THEN "nil" ELSE eof]

\* mutant: nothing is drained
DiscardNothing(data, pos, eof, n) == [bytes |-> <<>>, n |-> 0, pos |-> pos, err |-> "nil"]

\* io.CopyN(ioutil.Discard, r, n)
Discard(data, pos, eof, n) == CopyN(data, pos, eof, n)

\* mutant: a failed read reports last = false
ReadRecordMarkerNotLast(data, pos, eof) ==
    LET rd == ReadFull(data, pos, eof, 4)
    IN  IF rd.err /= "nil"
        THEN [size |-> U32(0), last |-> FALSE, err |-> rd.err, pos |-> rd.pos]
        ELSE LET p == ParseRecordMarker(Uint32(rd.bytes))
             IN  [size |-> p.size, last |-> p.last, err |-> "nil", pos |-> rd.pos]

ReadRecordMarker(data, pos, eof) ==
    LET rd == ReadFull(data, pos, eof, 4)
    IN  IF rd.err /= "nil"
        THEN [size |-> U32(0), last |-> TRUE, err |-> rd.err, pos |-> rd.pos]
        ELSE LET p == ParseRecordMarker(Uint32(rd.bytes))
             IN  [size |-> p.size, last |-> p.last, err |-> "nil", pos |-> rd.pos]

----------------------------------------------------------------------------
(* Input streams of the reader: up to MaxFrags fragments in RFC 5531 wire  *)
(* format (bit 31 of the big-endian marker is the last-fragment flag, bits *)
(* 30..0 the length), the last MaxCut or fewer bytes possibly missing.     *)

Lens == {0, 2, maxRecordSize - 1, maxRecordSize}

FragChoice == [size : Lens, last : BOOLEAN]

Gens == UNION {[1..n -> FragChoice] : n \in 0..MaxFrags}

WireMarker(size, last) ==
    << (size \div 16777216) + (IF last THEN 128 ELSE 0), (size \div 65536) % 256,
       (size \div 256) % 256, size % 256 >>

\* a fixed run of bytes from which payloads are cut
Pattern == [x \in 1..(maxRecordSize + 8) |-> (x * x + x \div 256) % 256]

\* the payload bytes of the i-th fragment
Payload(i, size) == SubSeq(Pattern, i, i + size - 1)

RECURSIVE Wire(_, _)
Wire(g, i) ==
    IF i > Len(g) THEN <<>>
    ELSE WireMarker(g[i].size, g[i].last) \o Payload(i, g[i].size) \o Wire(g, i + 1)

\* byte offset of the marker of fragment i in Wire(g, 1)
RECURSIVE FragOffset(_, _)
FragOffset(g, i) == IF i <= 1 THEN 0 ELSE FragOffset(g, i - 1) + 4 + g[i - 1].size

\* the reader's stream: the writer's output once it has been fed back, and
\* otherwise the generated fragments less the bytes cut off
rdata ==
    IF fed THEN wdata
    ELSE SubSeq(Wire(gen, 1), 1, FragOffset(gen, Len(gen) + 1) - cut)

----------------------------------------------------------------------------
(* ReadRecord *)

\* a *bytes.Buffer result: nil, or the buffer's bytes
NilBuf == [nil |-> TRUE, bytes |-> <<>>]

BufPtr(b) == [nil |-> FALSE, bytes |-> b]

NoRet == [op |-> "none", rec |-> NilBuf, err |-> NoErr]

\* ReadRecordMarker has not been called
NoMarker == [called |-> FALSE, size |-> U32(0), last |-> FALSE, err |-> "nil",
             from |-> 0, to |-> 0]

\* mutant: size < 0
BelowMinimumNever(size) == size < 0

\* size < 1
BelowMinimum(size) == size < 1

\* mutant: size > maxRecordSize
ExceedsMaximumStrict(size) == size > maxRecordSize

\* size >= maxRecordSize
ExceedsMaximum(size) == size >= maxRecordSize

\* mutant: return &buf, err
ReturnErrorWithBuf(b, err) == [rec |-> BufPtr(b), err |-> err]

\* return nil, err  /  return &buf, nil  (b is buf at the return statement)
ReturnError(b, err) == [rec |-> NilBuf, err |-> err]

ReturnRecord(b) == [rec |-> BufPtr(b), err |-> NoErr]

\* One iteration of the for loop of ReadRecord, from what ReadRecordMarker
\* returned (m, which leaves the reader at m.pos) and the buffer b: the reader's
\* position and the buffer afterwards, whether the call returns and what, the
\* marker of a fragment absorbed into the buffer, and the stream operations
\* that failed.
Iteration(m, data, eof, b) ==
    LET size == Int64(m.size)
    IN  IF m.err /= "nil"
        THEN [pos |-> m.pos, buf |-> b, done |-> TRUE, ret |-> ReturnError(b, Err(m.err)),
              frag |-> <<>>, fail |-> << [op |-> "ReadRecordMarker", err |-> m.err] >>]
        ELSE IF BelowMinimum(size)
        THEN [pos |-> m.pos, buf |-> b, done |-> TRUE, ret |-> ReturnError(b, ErrZeroLength),
              frag |-> <<>>, fail |-> <<>>]
        ELSE IF ExceedsMaximum(size)
        THEN LET d == Discard(data, m.pos, eof, size)
             IN  [pos |-> d.pos, buf |-> b, done |-> TRUE, ret |-> ReturnError(b, ErrTooLarge),
                  frag |-> <<>>,
                  fail |-> IF d.err /= "nil"
                           THEN << [op |-> "Discard", err |-> d.err] >> ELSE <<>>]
        ELSE LET c == CopyN(data, m.pos, eof, size)
                 nb == b \o c.bytes
             IN  IF c.err /= "nil"
                 THEN [pos |-> c.pos, buf |-> nb, done |-> TRUE,
                       ret |-> ReturnError(nb, ErrShortRead(c.n, size)), frag |-> <<>>,
                       fail |-> << [op |-> "CopyN", err |-> c.err] >>]
                 ELSE [pos |-> c.pos, buf |-> nb, done |-> m.last,
                       ret |-> ReturnRecord(nb),
                       frag |-> << [size |-> size, last |-> m.last] >>, fail |-> <<>>]

\* a caller enters ReadRecord: var buf bytes.Buffer
ReadRecordCall ==
    /\ pc = "idle"
    /\ ncalls < MaxCalls
    /\ ncalls' = ncalls + 1
    /\ pc' = "ReadRecord"
    /\ buf' = <<>>
    /\ callStart' = rpos
    /\ frags' = <<>>
    /\ ioFail' = <<>>
    /\ ret' = NoRet
    /\ rm' = NoMarker
    /\ UNCHANGED << gen, cut, rpos, rerr, codec >>
    /\ UNCHANGED writerVars

\* one pass through the loop body; the call returns when the pass ends the loop
ReadRecordLoop ==
    /\ pc = "ReadRecord"
    /\ \E data \in {rdata} :
       \E m \in {ReadRecordMarker(data, rpos, rerr)} :
       \E it \in {Iteration(m, data, rerr, buf)} :
           /\ rpos' = it.pos
           /\ rm' = [called |-> TRUE, size |-> m.size, last |-> m.last,
                     err |-> m.err, from |-> rpos, to |-> m.pos]
           /\ frags' = frags \o it.frag
           /\ ioFail' = ioFail \o it.fail
           /\ IF it.done
              THEN /\ pc' = "idle"
                   /\ buf' = <<>>
                   /\ ret' = [op |-> "ReadRecord", rec |-> it.ret.rec, err |-> it.ret.err]
              ELSE /\ pc' = "ReadRecord"
                   /\ buf' = it.buf
                   /\ ret' = ret
    /\ UNCHANGED << gen, cut, rerr, callStart, ncalls, codec >>
    /\ UNCHANGED writerVars

----------------------------------------------------------------------------
(* The write side of the stream: an io.Writer w = [data, cap] that accepts *)
(* cap.left more bytes when cap.limited, and any number otherwise; a Write *)
(* it cannot take whole returns an error, after taking the bytes that fit  *)
(* when cap.partial, and none of them otherwise.                           *)

Write(w, p) ==
    LET n == IF ~w.cap.limited \/ Len(p) <= w.cap.left THEN Len(p)
             ELSE IF w.cap.partial THEN w.cap.left ELSE 0
    IN  [w |-> [data |-> w.data \o SubSeq(p, 1, n),
                cap |-> [w.cap EXCEPT !.left = IF w.cap.limited THEN w.cap.left - n ELSE 0]],
         n |-> n,
         err |-> IF n < Len(p) THEN "EIO" ELSE "nil"]

WriteRecordMarker(w, size, last) ==
    LET record == NewRecordMarker(size, last)
        wr == Write(w, PutUint32(record))
    IN  [w |-> wr.w, err |-> wr.err]

\* mutant: the payload is written whether or not the marker was
WriteTCPReplyMessageUnchecked(w, reply) ==
    LET m == WriteRecordMarker(w, U32(Len(reply)), TRUE)
        p == Write(m.w, reply)
    IN  IF p.err /= "nil"
        THEN [w |-> p.w, err |-> Err(p.err), fail |-> << [op |-> "Write", err |-> p.err] >>]
        ELSE [w |-> p.w, err |-> NoErr, fail |-> <<>>]

\* the writer afterwards, the error returned, and the stream operations that failed
WriteTCPReplyMessage(w, reply) ==
    LET m == WriteRecordMarker(w, U32(Len(reply)), TRUE)
    IN  IF m.err /= "nil"
        THEN [w |-> m.w, err |-> Err(m.err),
              fail |-> << [op |-> "WriteRecordMarker", err |-> m.err] >>]
        ELSE LET p == Write(m.w, reply)
             IN  IF p.err /= "nil"
                 THEN [w |-> p.w, err |-> Err(p.err),
                       fail |-> << [op |-> "Write", err |-> p.err] >>]
                 ELSE [w |-> p.w, err |-> NoErr, fail |-> <<>>]

\* a caller sends one reply
WriteReply(reply) ==
    /\ pc = "idle"
    /\ ~fed
    /\ Len(sent) < MaxReplies
    /\ \E r \in {WriteTCPReplyMessage([data |-> wdata, cap |-> wcap], reply)} :
           /\ wdata' = r.w.data
           /\ wcap' = r.w.cap
           /\ ret' = [op |-> "WriteTCPReplyMessage", rec |-> NilBuf, err |-> r.err]
           /\ ioFail' = r.fail
           /\ sent' = IF r.err = NoErr THEN Append(sent, reply) ELSE sent
    /\ wstart' = Len(wdata)
    /\ wreply' = reply
    /\ UNCHANGED << gen, cut, rpos, rerr, pc, buf, callStart, ncalls, rm, frags, fed, codec >>

\* the bytes the writer produced become the stream of a fresh reader, on
\* which no call has returned yet
Loopback ==
    /\ pc = "idle"
    /\ ~fed
    /\ fed' = TRUE
    /\ rpos' = 0
    /\ ncalls' = 0
    /\ ret' = NoRet
    /\ UNCHANGED << gen, cut, rerr, pc, buf, callStart, rm, frags, ioFail,
                    wdata, wcap, wstart, wreply, sent, codec >>

----------------------------------------------------------------------------
(* The marker codec on its own: an argument is encoded, the marker decoded *)

CodecEncode ==
    /\ codec.stage = "arg"
    /\ codec' = [codec EXCEPT !.stage = "encoded",
                              !.marker = NewRecordMarker(codec.size, codec.last),
                              !.twin = NewRecordMarker(codec.size, ~codec.last)]
    /\ UNCHANGED << gen, cut, rpos, rerr, pc, buf, ret, callStart, ncalls, rm, frags,
                    ioFail >>
    /\ UNCHANGED writerVars

CodecDecode ==
    /\ codec.stage = "encoded"
    /\ codec' = [codec EXCEPT !.stage = "decoded",
                              !.parsed = ParseRecordMarker(codec.marker)]
    /\ UNCHANGED << gen, cut, rpos, rerr, pc, buf, ret, callStart, ncalls, rm, frags,
                    ioFail >>
    /\ UNCHANGED writerVars

----------------------------------------------------------------------------
(* Specifications *)

StreamErrs == {"EOF", "EIO"}

NoCodec == [stage |-> "none", size |-> U32(0), last |-> FALSE,
            marker |-> U32(0), twin |-> U32(0),
            parsed |-> [size |-> U32(0), last |-> FALSE]]

\* nothing has been called yet
Idle ==
    /\ rpos = 0
    /\ pc = "idle"
    /\ buf = <<>>
    /\ ret = NoRet
    /\ callStart = 0
    /\ ncalls = 0
    /\ rm = NoMarker
    /\ frags = <<>>
    /\ ioFail = <<>>
    /\ wdata = <<>>
    /\ wstart = 0
    /\ wreply = <<>>
    /\ sent = <<>>
    /\ fed = FALSE

\* a reader on a generated input stream
Init ==
    /\ gen \in Gens
    /\ cut \in 0..MaxCut
    /\ cut <= FragOffset(gen, Len(gen) + 1)
    /\ rerr \in StreamErrs
    /\ wcap = [limited |-> TRUE, left |-> 0, partial |-> TRUE]
    /\ codec = NoCodec
    /\ Idle

Next == ReadRecordCall \/ ReadRecordLoop

Spec == Init /\ [][Next]_vars

\* the goroutine that called ReadRecord keeps running: a read on a finite
\* stream returns, so the loop always takes its next pass
FairSpec == Init /\ [][Next]_vars /\ WF_vars(ReadRecordLoop)

\* a writer of replies whose output is then read back by a reader
ReplyLens == {0, 1, 2, maxRecordSize - 1, maxRecordSize}

Replies == {Payload(k, n) : k \in 1..2, n \in ReplyLens}

WCaps ==
    [limited : {TRUE}, left : 0..MaxWCap, partial : BOOLEAN]
        \cup {[limited |-> FALSE, left |-> 0, partial |-> TRUE]}

ReplyInit ==
    /\ gen = <<>>
    /\ cut = 0
    /\ rerr \in StreamErrs
    /\ wcap \in WCaps
    /\ codec = NoCodec
    /\ Idle

ReplyNext ==
    \/ \E reply \in Replies : WriteReply(reply)
    \/ Loopback
    \/ (fed /\ ReadRecordCall)
    \/ ReadRecordLoop

ReplySpec == ReplyInit /\ [][ReplyNext]_vars

\* the codec applied to 32-bit arguments around 0, 2^15, 2^16, 2^31 and 2^32
HalfVals ==
    (0..MaxDelta) \cup ((32768 - MaxDelta)..(32768 + MaxDelta))
                  \cup ((Half - 1 - MaxDelta)..(Half - 1))

CodecInit ==
    /\ gen = <<>>
    /\ cut = 0
    /\ rerr = "EOF"
    /\ wcap = [limited |-> TRUE, left |-> 0, partial |-> TRUE]
    /\ \E hi \in HalfVals, lo \in HalfVals, last \in BOOLEAN :
           codec = [NoCodec EXCEPT !.stage = "arg", !.size = [hi |-> hi, lo |-> lo],
                                   !.last = last]
    /\ Idle

CodecNext == CodecEncode \/ CodecDecode

CodecSpec == CodecInit /\ [][CodecNext]_vars

----------------------------------------------------------------------------
(* Properties.  In Spec the reader's stream is Wire(gen, 1) less cut bytes, *)
(* so fragment i of gen starts at byte FragOffset(gen, i) of the stream.    *)

Returned(op) == pc = "idle" /\ ret.op = op

InRange(size) == size >= 1 /\ size <= maxRecordSize - 1

\* fragments j..k of gen are well formed and none of them is a last fragment
NonLastRun(j, k) == \A i \in j..k : InRange(gen[i].size) /\ ~gen[i].last

\* fragments j..k of gen are well formed and only the k-th is a last fragment
RecordRun(j, k) == NonLastRun(j, k - 1) /\ InRange(gen[k].size) /\ gen[k].last

\* Len(rdata)
StreamLen == IF fed THEN Len(wdata) ELSE FragOffset(gen, Len(gen) + 1) - cut

\* the marker of fragment k, and the whole of it, are in the stream
MarkerPresent(k) == FragOffset(gen, k) + 4 <= StreamLen

Present(k) == FragOffset(gen, k + 1) <= StreamLen

RECURSIVE Concat(_, _)
Concat(j, k) == IF j > k THEN <<>> ELSE Payload(j, gen[j].size) \o Concat(j + 1, k)

\* the pairs j <= k such that the returned call started at fragment j
CallRuns == {jk \in (1..Len(gen)) \X (1..Len(gen)) :
                jk[1] <= jk[2] /\ callStart = FragOffset(gen, jk[1])}

\* C1: a call that starts at k >= 1 well-formed fragments, only the k-th of them
\* flagged last, returns the payloads concatenated in stream order, without
\* error, and leaves the reader right behind the k-th fragment.
C1_ReadsWholeRecord ==
    (Returned("ReadRecord") /\ ~fed) =>
        \A jk \in CallRuns :
            (RecordRun(jk[1], jk[2]) /\ Present(jk[2])) =>
                /\ ret.err = NoErr
                /\ ret.rec = BufPtr(Concat(jk[1], jk[2]))
                /\ rpos = FragOffset(gen, jk[2] + 1)

C1_Witness ==
    /\ Returned("ReadRecord") /\ ~fed
    /\ callStart = 0 /\ Len(gen) >= 2 /\ RecordRun(1, 2) /\ Present(2)
    /\ Len(ret.rec.bytes) = gen[1].size + gen[2].size

\* C4: when the call reaches a marker of length >= maxRecordSize whose payload is
\* all in the stream, it fails with the too-large error and the reader is
\* right behind that payload, at the next marker.
C4_OversizeDrained ==
    (Returned("ReadRecord") /\ ~fed) =>
        \A jk \in CallRuns :
            (/\ NonLastRun(jk[1], jk[2] - 1)
             /\ gen[jk[2]].size >= maxRecordSize
             /\ Present(jk[2])) =>
                /\ ret.err = ErrTooLarge
                /\ ret.rec = NilBuf
                /\ rpos = FragOffset(gen, jk[2] + 1)

C4_Witness ==
    /\ Returned("ReadRecord") /\ ~fed
    /\ Len(gen) >= 2 /\ callStart = 0 /\ gen[1].size >= maxRecordSize /\ Present(1)
    /\ ret.err = ErrTooLarge
    /\ rpos = 4 + gen[1].size
    /\ MarkerPresent(2)

\* C5: when the call reaches a marker of length 0, at any fragment position and
\* with either flag, it fails with the zero-length error and the reader is
\* right behind that marker.
C5_ZeroLengthRejected ==
    (Returned("ReadRecord") /\ ~fed) =>
        \A jk \in CallRuns :
            (/\ NonLastRun(jk[1], jk[2] - 1)
             /\ gen[jk[2]].size = 0
             /\ MarkerPresent(jk[2])) =>
                /\ ret.err = ErrZeroLength
                /\ ret.rec = NilBuf
                /\ rpos = FragOffset(gen, jk[2]) + 4

C5_Witness ==
    /\ Returned("ReadRecord") /\ ~fed
    /\ Len(gen) >= 2 /\ callStart = 0 /\ NonLastRun(1, 1)
    /\ gen[2].size = 0 /\ ~gen[2].last
    /\ ret.err = ErrZeroLength
    /\ rpos = FragOffset(gen, 2) + 4

\* the error kinds that report a failure of the stream
IOErrorKinds == {"EOF", "ErrUnexpectedEOF", "EIO", "ShortRead"}

\* C6: whenever a stream operation failed during a call, the error the call
\* returns reports a failure of the stream.
C6_ErrorsSurfaced ==
    (pc = "idle" /\ ret.op /= "none" /\ ioFail /= <<>>) => ret.err.kind \in IOErrorKinds

\* C7: a record returned without error is at most 32 KB long.
C7_RecordAtMost32K ==
    (Returned("ReadRecord") /\ ret.err = NoErr) => Len(ret.rec.bytes) <= maxRecordSize

\* C8: a call that returns an error returns no buffer, whatever was accumulated.
C8_FailureReturnsNothing ==
    (Returned("ReadRecord") /\ ret.err /= NoErr) => ret.rec = NilBuf

C8_Witness ==
    /\ Returned("ReadRecord")
    /\ ret.err.kind = "ShortRead"
    /\ frags /= <<>>
    /\ ret.rec = NilBuf

\* C9: when the call reaches a marker of length in 1..maxRecordSize-1 and the
\* stream ends or errors after N < length payload bytes, it fails with the
\* short-read error carrying N and the length, and returns no buffer.
C9_ShortReadReported ==
    (Returned("ReadRecord") /\ ~fed) =>
        \A jk \in CallRuns :
            (/\ NonLastRun(jk[1], jk[2] - 1)
             /\ InRange(gen[jk[2]].size)
             /\ MarkerPresent(jk[2])
             /\ ~Present(jk[2])) =>
                /\ ret.err.kind = "ShortRead"
                /\ ret.err.n = StreamLen - FragOffset(gen, jk[2]) - 4
                /\ ret.err.size = gen[jk[2]].size
                /\ ret.rec = NilBuf

C9_Witness ==
    /\ Returned("ReadRecord") /\ ~fed
    /\ Len(gen) >= 1 /\ callStart = 0 /\ gen[1].size = maxRecordSize - 1
    /\ MarkerPresent(1) /\ ~Present(1)
    /\ ret.err.kind = "ShortRead"
    /\ ret.err.n = maxRecordSize - 1 - cut
    /\ ret.err.size = maxRecordSize - 1
    /\ cut > 0

\* byte offset of the k-th reply in the writer's output
RECURSIVE ReplyOffset(_)
ReplyOffset(k) == IF k <= 1 THEN 0 ELSE ReplyOffset(k - 1) + 4 + Len(sent[k - 1])

\* C2 as stated: every reply written is read back unchanged.
C2_RoundTripAnyPayload ==
    (Returned("ReadRecord") /\ fed) =>
        \A k \in 1..Len(sent) :
            callStart = ReplyOffset(k) =>
                ret.err = NoErr /\ ret.rec = BufPtr(sent[k])

\* C2: every reply of 1..maxRecordSize-1 bytes is read back unchanged.
C2_RoundTrip ==
    (Returned("ReadRecord") /\ fed) =>
        \A k \in 1..Len(sent) :
            (callStart = ReplyOffset(k) /\ InRange(Len(sent[k]))) =>
                ret.err = NoErr /\ ret.rec = BufPtr(sent[k])

C2_Witness ==
    /\ Returned("ReadRecord") /\ fed
    /\ Len(sent) >= 1 /\ callStart = 0
    /\ Len(sent[1]) = 2
    /\ ret.rec = BufPtr(sent[1])

\* C10: a reply whose writes succeed adds to the stream exactly one marker, the
\* big-endian length of the payload with bit 31 set, and then the payload.
C10_ReplyFraming ==
    (Returned("WriteTCPReplyMessage") /\ ret.err = NoErr) =>
        LET reply == sent[Len(sent)]
        IN  SubSeq(wdata, wstart + 1, Len(wdata)) = WireMarker(Len(reply), TRUE) \o reply

C10_Witness ==
    /\ Returned("WriteTCPReplyMessage") /\ ret.err = NoErr
    /\ Len(sent[Len(sent)]) = maxRecordSize
    /\ Len(wdata) = wstart + 4 + maxRecordSize

\* C3: a length below 2^31 and a flag come back unchanged from the marker.
C3_CodecRoundTrip ==
    (codec.stage = "decoded" /\ codec.size.hi < 32768) =>
        codec.parsed = [size |-> codec.size, last |-> codec.last]

C3_Witness ==
    /\ codec.stage = "decoded"
    /\ codec.size = [hi |-> 32767, lo |-> Half - 1]
    /\ codec.last
    /\ codec.parsed = [size |-> codec.size, last |-> TRUE]

\* a | b on 16-bit halves
RECURSIVE OrBits(_, _, _)
OrBits(a, b, n) ==
    IF n = 0 THEN 0
    ELSE (IF a % 2 = 1 \/ b % 2 = 1 THEN 1 ELSE 0) + 2 * OrBits(a \div 2, b \div 2, n - 1)

Or32(a, b) == [hi |-> OrBits(a.hi, b.hi, 16), lo |-> OrBits(a.lo, b.lo, 16)]

\* the markers of codec.size with the flag and without it
FlaggedMarker == IF codec.last THEN codec.marker ELSE codec.twin

PlainMarker == IF codec.last THEN codec.twin ELSE codec.marker

\* C11: for every 32-bit size, the marker made with last = true is the marker
\* made with last = false with bit 31 or-ed in.
C11_FlagIndependence ==
    (codec.stage = "encoded") => FlaggedMarker = Or32(PlainMarker, Bit31)

C11_Witness ==
    /\ codec.stage = "encoded"
    /\ codec.size = [hi |-> 32768 + 1, lo |-> 1]
    /\ codec.last
    /\ codec.marker = [hi |-> 32768 + 1, lo |-> 1]
    /\ codec.twin = [hi |-> 1, lo |-> 1]

\* C13: for every 32-bit size, bit 31 of the marker is the flag and nothing
\* else, and bits 30..0 are the size modulo 2^31.
C13_FlagBitIsFlag ==
    (codec.stage = "encoded") =>
        /\ (codec.marker.hi >= 32768) <=> codec.last
        /\ codec.marker.hi % 32768 = codec.size.hi % 32768
        /\ codec.marker.lo = codec.size.lo

C13_Witness ==
    /\ codec.stage = "encoded"
    /\ codec.size = [hi |-> Half - 1, lo |-> Half - 1]
    /\ ~codec.last
    /\ codec.marker = [hi |-> 32767, lo |-> Half - 1]

\* C14: ReadRecordMarker fails when fewer than 4 bytes are left on the stream,
\* and then returns size 0 and last = true with the error; otherwise it
\* consumes 4 bytes and returns them decoded as one big-endian 32-bit marker.
C14_ReadRecordMarker ==
    rm.called =>
        IF StreamLen - rm.from < 4
        THEN /\ rm.err /= "nil"
             /\ rm.size = [hi |-> 0, lo |-> 0]
             /\ rm.last = TRUE
        ELSE \E b \in {SubSeq(rdata, rm.from + 1, rm.from + 4)} :
                /\ rm.err = "nil"
                /\ rm.to = rm.from + 4
                /\ rm.last = (b[1] >= 128)
                /\ rm.size = [hi |-> (b[1] % 128) * 256 + b[2], lo |-> b[3] * 256 + b[4]]

C14_Witness ==
    /\ rm.called
    /\ StreamLen - rm.from \in 1..3
    /\ rm.err = "ErrUnexpectedEOF"
    /\ rm.size = [hi |-> 0, lo |-> 0]
    /\ rm.last
    /\ Returned("ReadRecord") /\ ret.err = Err("ErrUnexpectedEOF")

\* total length of the fragments fs
RECURSIVE SumSizes(_)
SumSizes(fs) == IF fs = <<>> THEN 0 ELSE fs[1].size + SumSizes(Tail(fs))

Written == SubSeq(wdata, wstart + 1, Len(wdata))

RoomAtCall == wcap.left + Len(wdata) - wstart

\* C15: when the writer cannot take the marker, the call returns the write
\* error and no payload byte is on the stream (only the part of the marker the
\* writer took); when it takes the marker but not the payload, the call returns
\* the write error with the marker and the part of the payload taken on the
\* stream; payload bytes are on the stream only behind a whole marker.
C15_MarkerBeforePayload ==
    Returned("WriteTCPReplyMessage") =>
        \E mk \in {WireMarker(Len(wreply), TRUE)}, n \in {Len(wdata) - wstart} :
            /\ ioFail /= <<>> => ret.err = Err(ioFail[1].err)
            /\ IF wcap.limited /\ RoomAtCall < 4
               THEN /\ ret.err = Err("EIO")
                    /\ n < 4
                    /\ Written = SubSeq(mk, 1, n)
               ELSE IF wcap.limited /\ RoomAtCall < 4 + Len(wreply)
               THEN /\ ret.err = Err("EIO")
                    /\ n >= 4
                    /\ Written = mk \o SubSeq(wreply, 1, n - 4)
               ELSE /\ ret.err = NoErr
                    /\ Written = mk \o wreply

C15_Witness ==
    /\ Returned("WriteTCPReplyMessage")
    /\ ioFail = << [op |-> "WriteRecordMarker", err |-> "EIO"] >>
    /\ ret.err = Err("EIO")
    /\ wcap.limited /\ ~wcap.partial
    /\ Len(wreply) > 0 /\ Len(wreply) <= wcap.left
    /\ Len(wdata) = wstart

\* the stream of gen cut into units from fragment i on: an oversize fragment, or
\* a well-formed record (to = 0 marks fragments that are neither)
RECURSIVE UnitsFrom(_)
UnitsFrom(i) ==
    IF i > Len(gen) THEN <<>>
    ELSE IF gen[i].size >= maxRecordSize
    THEN << [from |-> i, to |-> i, big |-> TRUE] >> \o UnitsFrom(i + 1)
    ELSE IF \E k \in i..Len(gen) : RecordRun(i, k)
    THEN LET k == CHOOSE k \in i..Len(gen) : RecordRun(i, k)
         IN  << [from |-> i, to |-> k, big |-> FALSE] >> \o UnitsFrom(k + 1)
    ELSE << [from |-> i, to |-> 0, big |-> FALSE] >>

Units == UnitsFrom(1)

\* the whole stream is present and is made of records and oversize fragments
Framed == ~fed /\ cut = 0 /\ \A i \in 1..Len(Units) : Units[i].to >= Units[i].from

\* C16: on a stream that is a concatenation of well-formed records and fully
\* present oversize fragments, the c-th successive call starts at the c-th unit
\* and ends right behind it; it returns exactly that record, or, for an
\* oversize fragment, the size error and no record.
C16_SuccessiveCalls ==
    (Returned("ReadRecord") /\ Framed /\ ncalls <= Len(Units)) =>
        \E u \in {Units[ncalls]} :
            /\ callStart = FragOffset(gen, u.from)
            /\ rpos = FragOffset(gen, u.to + 1)
            /\ IF u.big
               THEN ret.rec = NilBuf /\ ret.err = ErrTooLarge
               ELSE ret.rec = BufPtr(Concat(u.from, u.to)) /\ ret.err = NoErr

C16_Witness ==
    /\ Returned("ReadRecord") /\ Framed
    /\ ncalls = 2 /\ Len(Units) = 2
    /\ Units[1].big /\ ~Units[2].big
    /\ ret.err = NoErr
    /\ ret.rec = BufPtr(Concat(2, 2))
    /\ rpos = StreamLen

\* C17: every call returns (the reader is never inside ReadRecord for ever, so it
\* is idle again and again); a pass of the loop that continues moves the reader at
\* least 5 bytes on (a marker and a payload byte) and never past the end of the
\* stream, so the fragments absorbed so far fit five bytes each into what the
\* call has consumed; a call that returns a record has just consumed a fragment
\* of the stream whose last flag is set, and any other return is an error.
C17_Terminates ==
    /\ []<>(pc = "idle")
    /\ [][(pc = "ReadRecord" /\ pc' = "ReadRecord") =>
              (rpos' >= rpos + 5 /\ rpos' <= StreamLen)]_vars
    /\ [](pc = "ReadRecord" => 5 * Len(frags) <= rpos - callStart)
    /\ [](Returned("ReadRecord") =>
              IF ret.err = NoErr
              THEN /\ ~ret.rec.nil
                   /\ rm.called /\ rm.err = "nil" /\ rm.last
                   /\ \E k \in 1..Len(gen) :
                          /\ gen[k].last
                          /\ rm.from = FragOffset(gen, k)
                          /\ rpos = FragOffset(gen, k + 1)
                          /\ rpos >= callStart + 5
              ELSE ret.rec.nil)

\* the stream ended behind a fragment that was not the last of its record
C17_Witness ==
    /\ Returned("ReadRecord")
    /\ Len(frags) >= 1 /\ ~frags[Len(frags)].last
    /\ ret.err = Err("EOF")
    /\ rpos = StreamLen

====
